---- MODULE Spec2Model ----
(***************************************************************************)
(* Symbol index and patch engine of terminal-llm (tree.py).                *)
(*                                                                         *)
(* Part I  : the patch engine (BlockPatch: generate_diff / apply_patch).   *)
(* Part II : the incremental scan pipeline (scan_project_files_optimized,  *)
(*           process_symbols_to_db, SymbolTrie).                           *)
(***************************************************************************)
EXTENDS Integers, Sequences, FiniteSets, TLC

VARIABLES
    \* ---- patch engine ----
    disk,       \* file path -> bytes currently on disk
    disk0,      \* the bytes on disk when the request was built (history)
    request,    \* the BlockPatch: sequence of [file, start, end, expected, replacement]
    outcome,    \* what the last operation returned or raised
    \* ---- file system, store and prefix index ----
    fs,                     \* file path -> [mtime, source]
    symbols,                \* the symbols table: rows in rowid order (committed)
    file_metadata,          \* the file_metadata table (committed)
    symbol_trie,            \* app.state.symbol_trie
    \* ---- one call of scan_project_files_optimized ----
    pc,                     \* where the scan is
    scan,                   \* the arguments of the scans: [mode, roots, batch_size]
    all_existing_symbols,   \* name -> list of (file_path, signature, hash)
    tasks,                  \* files still to dispatch
    pending,                \* files of the current batch not yet parsed
    results,                \* parse results of the current batch
    tx,                     \* the open transaction of process_symbols_to_db
    \* ---- history ----
    log,                    \* what the current scan did to each of its files
    prev,                   \* how the scan before it ended
    extracted,              \* the <<name, hash>> pairs written back so far
    scans,                  \* scans started
    edits,                  \* file modifications made
    faults,                 \* store writes that failed
    \* ---- calls from outside the scan ----
    inserted,               \* the direct SymbolTrie.insert calls made so far (history)
    registry,               \* ParserLoader._parsers: the languages loaded
    reply                   \* what the last call returned or raised

patchVars == <<disk, disk0, request, outcome>>

storeVars == <<symbols, file_metadata>>

scanVars == <<pc, scan, all_existing_symbols, tasks, pending, results, tx>>

indexVars == <<fs, symbols, file_metadata, symbol_trie, pc, scan, all_existing_symbols,
               tasks, pending, results, tx, log, prev, extracted, scans, edits,
               faults>>

\* the scan's own state and history: the index without the table of symbols
\* and the trie
pipelineVars == <<fs, file_metadata, pc, scan, all_existing_symbols, tasks, pending,
                  results, tx, log, prev, extracted, scans, edits, faults>>

apiVars == <<inserted, registry, reply>>

vars == <<disk, disk0, request, outcome, fs, symbols, file_metadata, symbol_trie, pc,
          scan, all_existing_symbols, tasks, pending, results, tx, log, prev,
          extracted, scans, edits, faults, inserted, registry, reply>>

(***************************************************************************)
(* Part I.  Patch engine                                                   *)
(***************************************************************************)

PatchFiles == {"p/a.py", "p/b.py"}

\* Bytes found in files; 0 is a byte of a stale snapshot, 3 and 4 are
\* bytes only replacements carry.
FileBytes == {1, 2}

MaxLen == 2
MaxRanges == 2

RECURSIVE SeqsUpTo(_, _)
SeqsUpTo(S, n) ==
    IF n = 0 THEN {<<>>}
    ELSE LET shorter == SeqsUpTo(S, n - 1)
         IN  shorter \cup {Append(s, x) : s \in {t \in shorter : Len(t) = n - 1}, x \in S}

Contents == SeqsUpTo(FileBytes, MaxLen)

\* bytes[start:end] of Python: 0-based, end exclusive, clipped to the length
Slice(bytes, start, end) ==
    LET hi == IF end > Len(bytes) THEN Len(bytes) ELSE end
    IN  IF start >= hi THEN <<>> ELSE SubSeq(bytes, start + 1, hi)

\* what a caller holding a stale snapshot of the block would send
Stale(bytes) == IF bytes = <<>> THEN <<0>> ELSE [bytes EXCEPT ![1] = 0]

ReplacementsFor(expected) == {<<>>, <<3, 4>>, expected}

RangesFor(d) ==
    UNION { UNION { UNION {
        { [file |-> f, start |-> s, end |-> e, expected |-> x, replacement |-> r] :
            r \in ReplacementsFor(x) }
        : x \in {Slice(d[f], s, e), Stale(Slice(d[f], s, e))} }
        : s \in 0..Len(d[f]), e \in 0..Len(d[f]) }
        : f \in PatchFiles }

RequestsFor(d) ==
    UNION { [1..n -> {r \in RangesFor(d) : r.start <= r.end}] : n \in 0..MaxRanges }

NoOutcome == [op |-> "none", status |-> "none", diff |-> <<>>, patched |-> <<>>]

\* ---- validation (run before either operation) ----

IndicesOf(req, f) == {i \in 1..Len(req) : req[i].file = f}

\* insert index i into the list of indices kept ordered by start offset; an
\* index goes after every one whose start is not larger (stable sort)
RECURSIVE InsertByStart(_, _, _)
InsertByStart(req, sorted, i) ==
    IF sorted = <<>> THEN <<i>>
    ELSE IF req[Head(sorted)].start <= req[i].start
         THEN <<Head(sorted)>> \o InsertByStart(req, Tail(sorted), i)
         ELSE <<i>> \o sorted

RECURSIVE SortUpTo(_, _, _)
SortUpTo(req, f, n) ==
    IF n = 0 THEN <<>>
    ELSE IF req[n].file = f
         THEN InsertByStart(req, SortUpTo(req, f, n - 1), n)
         ELSE SortUpTo(req, f, n - 1)

\* the indices of f's ranges, sorted by start offset
SortedRanges(req, f) == SortUpTo(req, f, Len(req))

\* (variant: ranges that only touch count as overlapping)
AdjacentOverlapTouching(req, a, b) == req[b].start <= req[a].end

AdjacentOverlap(req, a, b) == req[b].start < req[a].end

HasOverlap(req, f) ==
    LET order == SortedRanges(req, f)
    IN  \E k \in 1..(Len(order) - 1) : AdjacentOverlap(req, order[k], order[k + 1])

\* (variant: only the length of the expected bytes is compared)
ContentMatchesLength(d, r) == Len(Slice(d[r.file], r.start, r.end)) = Len(r.expected)

ContentMatches(d, r) == Slice(d[r.file], r.start, r.end) = r.expected

Validate(req, d) ==
    IF \E f \in PatchFiles : HasOverlap(req, f) THEN "overlap"
    ELSE IF \E i \in 1..Len(req) : ~ContentMatches(d, req[i]) THEN "mismatch"
    ELSE "ok"

\* ---- splice ----

ReplaceRange(bytes, r) ==
    Slice(bytes, 0, r.start) \o r.replacement \o Slice(bytes, r.end, Len(bytes))

\* (variant: first range first, so later offsets are stale)
RECURSIVE SpliceForward(_, _, _, _)
SpliceForward(bytes, req, order, k) ==
    IF k = 0 THEN bytes
    ELSE ReplaceRange(SpliceForward(bytes, req, order, k - 1), req[order[k]])

\* the ranges of order[1..k] spliced into bytes, last range first, so that
\* the offsets of the ranges not yet applied stay valid
RECURSIVE SpliceFrom(_, _, _, _)
SpliceFrom(bytes, req, order, k) ==
    IF k = 0 THEN bytes
    ELSE SpliceFrom(ReplaceRange(bytes, req[order[k]]), req, order, k - 1)

Splice(bytes, req, f) ==
    LET order == SortedRanges(req, f)
    IN  SpliceFrom(bytes, req, order, Len(order))

IsNoOp(r) == r.replacement = r.expected

\* (variant: every file the request names, no-op or not)
NamedFiles(req) == {f \in PatchFiles : IndicesOf(req, f) # {}}

\* the files some range of the request really changes
ChangedFiles(req) == {f \in PatchFiles : \E i \in IndicesOf(req, f) : ~IsNoOp(req[i])}

\* a unified diff of one file: nothing when old and new are the same text
UnifiedDiff(f, old, new) ==
    IF old = new THEN <<>> ELSE <<[file |-> f, old |-> old, new |-> new]>>

FileOrder == <<"p/a.py", "p/b.py">>

RECURSIVE DiffUpTo(_, _, _)
DiffUpTo(req, d, n) ==
    IF n = 0 THEN <<>>
    ELSE DiffUpTo(req, d, n - 1) \o
         (IF FileOrder[n] \in ChangedFiles(req)
          THEN UnifiedDiff(FileOrder[n], d[FileOrder[n]], Splice(d[FileOrder[n]], req, FileOrder[n]))
          ELSE <<>>)

DiffText(req, d) == DiffUpTo(req, d, Len(FileOrder))

PatchedFiles(req, d) == [f \in ChangedFiles(req) |-> Splice(d[f], req, f)]

\* ---- the two operations ----

GenerateDiff ==
    /\ outcome.op = "none"
    /\ LET status == Validate(request, disk)
       IN  outcome' = [op |-> "diff", status |-> status,
                       diff |-> IF status = "ok" THEN DiffText(request, disk) ELSE <<>>,
                       patched |-> <<>>]
    /\ UNCHANGED <<disk, disk0, request>>
    /\ UNCHANGED indexVars
    /\ UNCHANGED apiVars

ApplyPatch ==
    /\ outcome.op = "none"
    /\ LET status == Validate(request, disk)
           patched == IF status = "ok" THEN PatchedFiles(request, disk) ELSE <<>>
       IN  /\ outcome' = [op |-> "apply", status |-> status, diff |-> <<>>,
                          patched |-> patched]
           /\ disk' = [f \in PatchFiles |->
                         IF f \in DOMAIN patched THEN patched[f] ELSE disk[f]]
    /\ UNCHANGED <<disk0, request>>
    /\ UNCHANGED indexVars
    /\ UNCHANGED apiVars

(***************************************************************************)
(* Part II.  File system, symbol store, prefix index                       *)
(***************************************************************************)

\* Source files of the project, as path components below the working
\* directory; ProjectRoot is the directory handed to the scan.
ProjectRoot == <<"src">>

Files == {<<"src", "a.py">>, <<"src", "pkg", "__init__.py">>}

\* rglob order of the files
WalkOrder == <<(<<"src", "a.py">>), (<<"src", "pkg", "__init__.py">>)>>

\* Symbol names, as tuples of characters, in the order a file defines them
Names == {<<"f">>, <<"g">>}

NameOrder == <<(<<"f">>), (<<"g">>)>>

\* The full definitions a symbol can have, by number; 0 stands for "not
\* defined in this file".
\*   1: "def f():\n    return 1"     2: "def f():\n    return 4"
\*   3: "def f(x):\n    return x + 1"
\* 1 and 2 share the declaration line and differ in the body.
DefsOf(name) == IF name = <<"f">> THEN {0, 1, 2, 3} ELSE {0, 1}

\* the parameter list of the declaration line stands for the signature
SignatureOf(def) == IF def = 3 THEN "(x)" ELSE "()"

\* zlib.crc32 of the texts
calculate_crc32_hash(def) ==
    CASE def = 1 -> 283566070
      [] def = 2 -> 1619798905
      [] def = 3 -> 1813915731
      \* 4: "def z():\n    return a() + u()"     5: "def a():\n    b()"
      \* 6: "def b():\n    z()"                  7: "def b():\n    pass"
      [] def = 4 -> 1884245133
      [] def = 5 -> 1550998308
      [] def = 6 -> 970554140
      [] def = 7 -> 1603578314

Last(s) == s[Len(s)]

\* What a file holds: ok = FALSE is a file the parser rejects (unsupported
\* suffix, undecodable bytes, extractor error); defs is what it defines.
NoDefs == [n \in Names |-> 0]

Sources ==
    {[ok |-> TRUE, defs |-> d] : d \in {x \in [Names -> 0..3] : \A n \in Names : x[n] \in DefsOf(n)}}
        \cup {[ok |-> FALSE, defs |-> NoDefs]}

\* the package file defines f alone
SourcesOf(file) ==
    IF Last(file) = "__init__.py" THEN {s \in Sources : s.defs[<<"g">>] = 0} ELSE Sources

MaxScans == 3
MaxEdits == 1
MaxFaults == 1
BatchSize == 2

RECURSIVE SeqToSet(_)
SeqToSet(s) == IF s = <<>> THEN {} ELSE {Head(s)} \cup SeqToSet(Tail(s))

\* ---- SymbolTrie ----

\* children: the characters below the node, in insertion order (a dict)
EmptyNode == [children |-> <<>>, is_end |-> FALSE, symbols |-> <<>>]

EmptyTrie == [nodes |-> (<<>> :> EmptyNode), size |-> 0]

Prefixes(word) == {SubSeq(word, 1, k) : k \in 0..Len(word)}

IsPrefixOf(p, word) == Len(p) <= Len(word) /\ SubSeq(word, 1, Len(p)) = p

\* "symbol:", character by character
SymbolTag == <<"s", "y", "m", "b", "o", "l", ":">>

StartsWithSymbolTag(word) == IsPrefixOf(SymbolTag, word)

extract_identifiable_path(file_path) ==
    IF Last(file_path) = "__init__.py" /\ Len(file_path) > 1
    THEN <<file_path[Len(file_path) - 1], "/", Last(file_path)>>
    ELSE <<Last(file_path)>>

\* (variant: the bare file name for every file)
BasenameOnlyKey(word, file_path) == SymbolTag \o <<Last(file_path), "/">> \o word

CompositeKey(word, file_path) ==
    SymbolTag \o extract_identifiable_path(file_path) \o <<"/">> \o word

TrieInfo(file_path, signature, hash) ==
    [file_path |-> file_path, signature |-> signature, full_definition_hash |-> hash]

\* (variant: no test of the hashes already stored)
NeverHasHash(node, hash) == FALSE

HasHash(node, hash) ==
    \E k \in 1..Len(node.symbols) : node.symbols[k].full_definition_hash = hash

\* the walk from the root that creates the missing nodes of word
WithPath(nodes, word) ==
    [p \in DOMAIN nodes \cup Prefixes(word) |->
        LET node == IF p \in DOMAIN nodes THEN nodes[p] ELSE EmptyNode
            below == IF IsPrefixOf(p, word) /\ Len(p) < Len(word)
                     THEN SubSeq(word, 1, Len(p) + 1)
                     ELSE p
        IN  IF below # p /\ below \notin DOMAIN nodes
            THEN [node EXCEPT !.children = Append(@, word[Len(p) + 1])]
            ELSE node]

\* SymbolTrie.insert for one key, without the file-qualified second key
InsertKey(trie, word, info) ==
    LET nodes == WithPath(trie.nodes, word)
        node == nodes[word]
    IN  IF HasHash(node, info.full_definition_hash)
        THEN [trie EXCEPT !.nodes = nodes]
        ELSE [nodes |-> [nodes EXCEPT ![word] =
                            [node EXCEPT !.is_end = TRUE,
                                         !.symbols = Append(node.symbols, info)]],
              size |-> IF node.is_end THEN trie.size ELSE trie.size + 1]

\* SymbolTrie.insert
Insert(trie, word, info) ==
    LET nodes == WithPath(trie.nodes, word)
    IN  IF HasHash(nodes[word], info.full_definition_hash)
        THEN [trie EXCEPT !.nodes = nodes]
        ELSE IF StartsWithSymbolTag(word)
             THEN InsertKey(trie, word, info)
             ELSE InsertKey(InsertKey(trie, word, info),
                            CompositeKey(word, info.file_path), info)

\* the entries stored at a key
EntriesAt(trie, word) == IF word \in DOMAIN trie.nodes THEN trie.nodes[word].symbols ELSE <<>>

\* ---- the symbols table ----

Row(name, file_path, def) ==
    [name |-> name, file_path |-> file_path, signature |-> SignatureOf(def),
     full_definition |-> def, full_definition_hash |-> calculate_crc32_hash(def)]

\* (variant: writing a row clears the other rows of its file)
ReplaceFileRows(table, row) ==
    Append(SelectSeq(table, LAMBDA r : r.file_path # row.file_path), row)

\* INSERT OR REPLACE under UNIQUE(name, file_path): the row in conflict is
\* deleted and the new row gets a fresh rowid
InsertOrReplace(table, row) ==
    Append(SelectSeq(table, LAMBDA r : ~(r.name = row.name /\ r.file_path = row.file_path)),
           row)

RECURSIVE InsertOrReplaceAll(_, _)
InsertOrReplaceAll(table, rows) ==
    IF rows = <<>> THEN table
    ELSE InsertOrReplaceAll(InsertOrReplace(table, Head(rows)), Tail(rows))

\* get_existing_symbols: name -> [(file_path, signature, hash)] in row order
ExistingEntry(r) == TrieInfo(r.file_path, r.signature, r.full_definition_hash)

RECURSIVE EntriesOfName(_, _)
EntriesOfName(table, name) ==
    IF table = <<>> THEN <<>>
    ELSE (IF Head(table).name = name THEN <<ExistingEntry(Head(table))>> ELSE <<>>)
            \o EntriesOfName(Tail(table), name)

get_existing_symbols(table) == [n \in Names |-> EntriesOfName(table, n)]

\* the names of the table in the order of their first row
RECURSIVE FirstSeen(_, _)
FirstSeen(table, seen) ==
    IF table = <<>> THEN <<>>
    ELSE IF Head(table).name \in seen THEN FirstSeen(Tail(table), seen)
         ELSE <<Head(table).name>> \o FirstSeen(Tail(table), seen \cup {Head(table).name})

RECURSIVE InsertEntries(_, _, _)
InsertEntries(trie, name, entries) ==
    IF entries = <<>> THEN trie
    ELSE InsertEntries(Insert(trie, name, Head(entries)), name, Tail(entries))

RECURSIVE InsertNames(_, _, _)
InsertNames(trie, names, existing) ==
    IF names = <<>> THEN trie
    ELSE InsertNames(InsertEntries(trie, Head(names), existing[Head(names)]),
                     Tail(names), existing)

\* SymbolTrie.from_symbols over the dictionary loaded from the table
from_symbols(table) ==
    InsertNames(EmptyTrie, FirstSeen(table, {}), get_existing_symbols(table))

\* ---- reading and parsing a file ----

\* (None, None) of parse_worker_wrapper
NoResult == [file |-> <<>>, symbols |-> NoDefs]

\* parse_worker_wrapper: (file_path, symbols), or (None, None) when
\* get_parser or parse_source_file raised inside parse_task
parse_worker_wrapper(f) ==
    IF fs[f].source.ok THEN [file |-> f, symbols |-> fs[f].source.defs] ELSE NoResult

\* (variant: the exception of parse_task leaves the wrapper)
ParseFailureRaises(next) == "aborted"

\* where the scan goes on after a parse that failed: the failure was caught
\* in parse_task, the loop carries on
AfterParseFailure(next) == next

\* ---- the mtime gate ----

\* full_path of the walk: (project_dir / file_path).resolve().absolute(),
\* where file_path, yielded by project_dir.rglob, already starts with
\* project_dir; joining an absolute path replaces, joining a relative one
\* appends
WalkFullPath(roots, f) == IF roots = "relative" THEN ProjectRoot \o f ELSE f

check_file_needs_processing(full_path) ==
    ~(/\ full_path \in DOMAIN file_metadata
      /\ file_metadata[full_path].last_modified = fs[full_path].mtime)

TasksOf(roots) ==
    SelectSeq(WalkOrder, LAMBDA f : check_file_needs_processing(WalkFullPath(roots, f)))

\* ---- process_symbols_to_db ----

NoTx == [open |-> FALSE, file |-> <<>>, symbols |-> NoDefs, rows |-> <<>>,
         meta |-> <<>>, last_modified |-> 0, file_hash |-> [ok |-> FALSE, defs |-> NoDefs]]

check_symbol_duplicate(name, def, existing) ==
    \E k \in 1..Len(existing[name]) : existing[name][k].signature = SignatureOf(def)

\* prepare_insert_data: the symbols that get an insert tuple
Prepared(parsed, existing, name) ==
    /\ parsed[name] # 0
    /\ ~check_symbol_duplicate(name, parsed[name], existing)

\* the filter of process_symbols_to_db: no entry of that name, in any file,
\* carries the hash yet
Kept(parsed, existing, name) ==
    /\ Prepared(parsed, existing, name)
    /\ ~\E k \in 1..Len(existing[name]) :
            existing[name][k].full_definition_hash = calculate_crc32_hash(parsed[name])

RECURSIVE FilteredData(_, _, _, _)
FilteredData(parsed, existing, full_path, names) ==
    IF names = <<>> THEN <<>>
    ELSE (IF Kept(parsed, existing, Head(names))
          THEN <<Row(Head(names), full_path, parsed[Head(names)])>>
          ELSE <<>>) \o FilteredData(parsed, existing, full_path, Tail(names))

RECURSIVE InsertRows(_, _)
InsertRows(trie, rows) ==
    IF rows = <<>> THEN trie
    ELSE InsertRows(Insert(trie, Head(rows).name, ExistingEntry(Head(rows))), Tail(rows))

RememberRows(existing, rows) == [n \in Names |-> existing[n] \o EntriesOfName(rows, n)]

\* (variant: the connection commits each statement on its own)
AutoCommitted(table, rows) == InsertOrReplaceAll(table, rows)

\* the committed symbols table after conn.executemany inside the
\* transaction opened by BEGIN TRANSACTION: as before
CommittedAfterExecutemany(table, rows) == table

ExtractedPairs(parsed) ==
    {<<n, calculate_crc32_hash(parsed[n])>> : n \in {m \in Names : parsed[m] # 0}}

TotalSymbols(parsed) == Cardinality({n \in Names : parsed[n] # 0})

WithMeta(table, meta) ==
    [p \in DOMAIN table \cup {meta.file_path} |->
        IF p = meta.file_path
        THEN [last_modified |-> meta.last_modified, file_hash |-> meta.file_hash,
              total_symbols |-> meta.total_symbols]
        ELSE table[p]]

\* ---- the scan ----

FreshLog(taskList) ==
    [tasks |-> SeqToSet(taskList), parse_failed |-> {}, write_failed |-> {}, written |-> {},
     rows_written |-> 0, edits_at_start |-> edits]

NoPrev == [status |-> "none", roots |-> "none", trie_size |-> 0, edits_at_start |-> 0]

\* scan_project_files_optimized up to the task list: the paths exist, the
\* hash index is loaded, the trie is rebuilt from the table, the walk applies
\* the mtime gate
ScanStart ==
    /\ pc = "idle"
    /\ scans < MaxScans
    /\ scans' = scans + 1
    /\ all_existing_symbols' = get_existing_symbols(symbols)
    /\ symbol_trie' = from_symbols(symbols)
    /\ tasks' = TasksOf(scan.roots)
    /\ pending' = {}
    /\ results' = <<>>
    /\ log' = FreshLog(TasksOf(scan.roots))
    /\ pc' = "dispatch"
    /\ UNCHANGED <<fs, symbols, file_metadata, scan, tx, prev, extracted, edits, faults>>
    /\ UNCHANGED patchVars
    /\ UNCHANGED apiVars

\* (variant: the paths are checked after the trie has been rebuilt)
RebuiltBeforePathCheck(trie, table) == from_symbols(table)

\* app.state.symbol_trie when the path check raises: the check is the first
\* statement that does anything, the trie is assigned later
TrieAfterPathError(trie, table) == trie

\* scan_project_files_optimized called with a project path that does not
\* exist: ValueError before the store is read
ScanPathMissing ==
    /\ pc = "idle"
    /\ symbol_trie' = TrieAfterPathError(symbol_trie, symbols)
    /\ pc' = "path_error"
    /\ UNCHANGED <<fs, symbols, file_metadata, scan, all_existing_symbols, tasks, pending,
                   results, tx, log, prev, extracted, scans, edits, faults>>
    /\ UNCHANGED patchVars
    /\ UNCHANGED apiVars

\* the ValueError of the path check reaches the caller
PathErrorRaised ==
    /\ pc = "path_error"
    /\ pc' = "idle"
    /\ UNCHANGED <<fs, symbols, file_metadata, symbol_trie, scan, all_existing_symbols, tasks,
                   pending, results, tx, log, prev, extracted, scans, edits, faults>>
    /\ UNCHANGED patchVars
    /\ UNCHANGED apiVars

BatchLen == IF scan.mode = "sync" THEN 1 ELSE scan.batch_size

Min(a, b) == IF a < b THEN a ELSE b

\* the next file of the loop (one process) or the next batch (pool)
Dispatch ==
    /\ pc = "dispatch"
    /\ IF tasks = <<>>
       THEN /\ pc' = "done"
            /\ UNCHANGED <<tasks, pending>>
       ELSE LET n == Min(BatchLen, Len(tasks))
            IN  /\ pending' = {tasks[k] : k \in 1..n}
                /\ tasks' = SubSeq(tasks, n + 1, Len(tasks))
                /\ pc' = "parsing"
    /\ UNCHANGED <<fs, symbols, file_metadata, symbol_trie, scan, all_existing_symbols,
                   results, tx, log, prev, extracted, scans, edits, faults>>
    /\ UNCHANGED patchVars
    /\ UNCHANGED apiVars

AfterResult(rest) == IF rest = <<>> THEN "dispatch" ELSE "writing"

\* (variant: every batch is parsed before anything is written)
ParseAllBatchesFirst(rest) == IF rest = {} THEN "dispatch" ELSE "parsing"

\* the loop over imap_unordered ends when every file of the batch has
\* returned; the loop that writes comes after it
AfterParse(rest) == IF rest = {} THEN "writing" ELSE "parsing"

\* one parse_worker_wrapper call ends; in the pool the files of a batch end
\* in any order (imap_unordered)
Parse(f) ==
    /\ pc = "parsing"
    /\ f \in pending
    /\ LET result == parse_worker_wrapper(f)
           next == AfterParse(pending \ {f})
       IN  /\ results' = Append(results, result)
           /\ pc' = IF result.file = <<>> THEN AfterParseFailure(next) ELSE next
           /\ log' = IF result.file = <<>>
                     THEN [log EXCEPT !.parse_failed = @ \cup {f}]
                     ELSE log
    /\ pending' = pending \ {f}
    /\ UNCHANGED <<fs, symbols, file_metadata, symbol_trie, scan, all_existing_symbols,
                   tasks, tx, prev, extracted, scans, edits, faults>>
    /\ UNCHANGED patchVars
    /\ UNCHANGED apiVars

\* "if file_path:" / "if not file_path: continue"
SkipFailedResult ==
    /\ pc = "writing"
    /\ results # <<>>
    /\ Head(results).file = <<>>
    /\ results' = Tail(results)
    /\ pc' = AfterResult(Tail(results))
    /\ UNCHANGED <<fs, symbols, file_metadata, symbol_trie, scan, all_existing_symbols,
                   tasks, pending, tx, log, prev, extracted, scans, edits, faults>>
    /\ UNCHANGED patchVars
    /\ UNCHANGED apiVars

\* process_symbols_to_db up to executemany: stat and hash of the file, BEGIN,
\* prepare_insert_data, the filter with its updates of the hash index and of
\* the trie, the INSERT OR REPLACE of the filtered rows
BeginWrite ==
    /\ pc = "writing"
    /\ results # <<>>
    /\ Head(results).file # <<>>
    /\ LET f == Head(results).file
           parsed == Head(results).symbols
           rows == FilteredData(parsed, all_existing_symbols, f, NameOrder)
       IN  /\ tx' = [open |-> TRUE, file |-> f, symbols |-> parsed, rows |-> rows,
                     meta |-> <<>>, last_modified |-> fs[f].mtime,
                     file_hash |-> fs[f].source]
           /\ all_existing_symbols' = RememberRows(all_existing_symbols, rows)
           /\ symbol_trie' = InsertRows(symbol_trie, rows)
           /\ symbols' = CommittedAfterExecutemany(symbols, rows)
    /\ results' = Tail(results)
    /\ pc' = "tx_symbols"
    /\ UNCHANGED <<fs, file_metadata, scan, tasks, pending, log, prev, extracted, scans, edits, faults>>
    /\ UNCHANGED patchVars
    /\ UNCHANGED apiVars

\* INSERT OR REPLACE INTO file_metadata, inside the transaction
WriteMetadata ==
    /\ pc = "tx_symbols"
    /\ tx' = [tx EXCEPT !.meta = <<[file_path |-> tx.file,
                                    last_modified |-> tx.last_modified,
                                    file_hash |-> tx.file_hash,
                                    total_symbols |-> TotalSymbols(tx.symbols)]>>]
    /\ pc' = "tx_meta"
    /\ UNCHANGED <<fs, symbols, file_metadata, symbol_trie, scan, all_existing_symbols,
                   tasks, pending, results, log, prev, extracted, scans, edits, faults>>
    /\ UNCHANGED patchVars
    /\ UNCHANGED apiVars

\* conn.commit()
Commit ==
    /\ pc = "tx_meta"
    /\ symbols' = InsertOrReplaceAll(symbols, tx.rows)
    /\ file_metadata' = WithMeta(file_metadata, tx.meta[1])
    /\ log' = [log EXCEPT !.written = @ \cup {tx.file},
                          !.rows_written = @ + Len(tx.rows)]
    /\ extracted' = extracted \cup ExtractedPairs(tx.symbols)
    /\ tx' = NoTx
    /\ pc' = AfterResult(results)
    /\ UNCHANGED <<fs, symbol_trie, scan, all_existing_symbols, tasks, pending, results,
                   prev, scans, edits, faults>>
    /\ UNCHANGED patchVars
    /\ UNCHANGED apiVars

\* an exception inside process_symbols_to_db: conn.rollback(), then raise;
\* nothing around the call catches it, so the scan ends with it.  The read of
\* the file before BEGIN can fail as well as a statement after it.
WriteFails ==
    /\ faults < MaxFaults
    /\ faults' = faults + 1
    /\ \/ /\ pc = "writing"
          /\ results # <<>>
          /\ Head(results).file # <<>>
          /\ log' = [log EXCEPT !.write_failed = @ \cup {Head(results).file}]
          /\ results' = Tail(results)
       \/ /\ pc \in {"tx_symbols", "tx_meta"}
          /\ log' = [log EXCEPT !.write_failed = @ \cup {tx.file}]
          /\ results' = results
    /\ tx' = NoTx
    /\ pc' = "aborted"
    /\ UNCHANGED <<fs, symbols, file_metadata, symbol_trie, scan, all_existing_symbols,
                   tasks, pending, prev, extracted, scans, edits>>
    /\ UNCHANGED patchVars
    /\ UNCHANGED apiVars

\* the call returns, or the exception reaches the caller
ScanEnd ==
    /\ pc \in {"done", "aborted"}
    /\ prev' = [status |-> pc, roots |-> scan.roots, trie_size |-> symbol_trie.size,
                edits_at_start |-> log.edits_at_start]
    /\ pc' = "idle"
    /\ tasks' = <<>>
    /\ pending' = {}
    /\ results' = <<>>
    /\ UNCHANGED <<fs, symbols, file_metadata, symbol_trie, scan, all_existing_symbols,
                   tx, log, extracted, scans, edits, faults>>
    /\ UNCHANGED patchVars
    /\ UNCHANGED apiVars

\* somebody writes a file of the project (an editor, a patch); the mtime
\* moves even when the content is the same
EditFile(f, source) ==
    /\ edits < MaxEdits
    /\ edits' = edits + 1
    /\ fs' = [fs EXCEPT ![f] = [mtime |-> @.mtime + 1, source |-> source]]
    /\ UNCHANGED <<symbols, file_metadata, symbol_trie, pc, scan, all_existing_symbols,
                   tasks, pending, results, tx, log, prev, extracted, scans, faults>>
    /\ UNCHANGED patchVars
    /\ UNCHANGED apiVars

(***************************************************************************)
(* Part III.  Calls from outside the scan: the prefix index, the parser    *)
(* registry, the store queries                                             *)
(***************************************************************************)

NoReply == [op |-> "none"]

\* ---- SymbolTrie, called directly ----

MaxInserts == 3

\* the keys handed to insert: bare names, one a prefix of another, and a key
\* that is already file-qualified
InsertWords ==
    {<<"f">>, <<"f", "g">>, SymbolTag \o <<"a.py", "/", "f">>}

\* the files the inserted symbols come from: two share a basename
InsertFiles == {<<"src", "a.py">>, <<"lib", "a.py">>, <<"src", "pkg", "__init__.py">>}

InsertInfos ==
    {TrieInfo(file, "()", calculate_crc32_hash(def)) : file \in InsertFiles, def \in {1, 2}}

SearchPrefixes ==
    {<<>>, <<"f">>, <<"f", "g">>, <<"x">>, SymbolTag, SymbolTag \o <<"a.py">>}

\* a call of symbol_trie.insert(word, info)
TrieInsert(word, info) ==
    /\ Len(inserted) < MaxInserts
    /\ symbol_trie' = Insert(symbol_trie, word, info)
    /\ inserted' = Append(inserted, [word |-> word, info |-> info])
    /\ reply' = [op |-> "insert"]
    /\ UNCHANGED <<symbols, registry>>
    /\ UNCHANGED pipelineVars
    /\ UNCHANGED patchVars

\* _dfs_collect: the entries of the node, then the subtrees in the order of
\* the children
RECURSIVE dfs_collect(_, _), dfs_children(_, _, _)
dfs_collect(trie, current_prefix) ==
    LET node == trie.nodes[current_prefix]
        own == IF node.is_end
               THEN [k \in 1..Len(node.symbols) |->
                        [name |-> current_prefix, details |-> node.symbols[k]]]
               ELSE <<>>
    IN  own \o dfs_children(trie, current_prefix, node.children)

\* (variant: only the first child is visited)
dfs_first_child(trie, current_prefix, children) ==
    IF children = <<>> THEN <<>>
    ELSE dfs_collect(trie, Append(current_prefix, Head(children)))

dfs_children(trie, current_prefix, children) ==
    IF children = <<>> THEN <<>>
    ELSE dfs_collect(trie, Append(current_prefix, Head(children)))
            \o dfs_children(trie, current_prefix, Tail(children))

\* the walk of search_prefix down the characters of the prefix
PrefixNodeExists(trie, prefix) ==
    \A k \in 1..Len(prefix) :
        \E c \in 1..Len(trie.nodes[SubSeq(prefix, 1, k - 1)].children) :
            trie.nodes[SubSeq(prefix, 1, k - 1)].children[c] = prefix[k]

search_prefix(trie, prefix) ==
    IF PrefixNodeExists(trie, prefix) THEN dfs_collect(trie, prefix) ELSE <<>>

SearchPrefix(prefix) ==
    /\ reply' = [op |-> "search_prefix", prefix |-> prefix,
                 results |-> search_prefix(symbol_trie, prefix)]
    /\ UNCHANGED <<symbols, symbol_trie, inserted, registry>>
    /\ UNCHANGED pipelineVars
    /\ UNCHANGED patchVars

\* ---- ParserLoader ----

\* file names handed to get_parser, as (stem, suffix)
ParserFiles ==
    {<<"test", ".c">>, <<"test", ".h">>, <<"a", ".py">>, <<"b", ".PY">>, <<"a", ".js">>,
     <<"a", ".java">>, <<"a", ".go">>, <<"notes", ".txt">>, <<"Makefile", "">>}

\* Path(file_path).suffix.lower()
SuffixLower(file_path) == IF file_path[2] = ".PY" THEN ".py" ELSE file_path[2]

SUPPORTED_LANGUAGES ==
    (".c" :> "c") @@ (".h" :> "c") @@ (".py" :> "python") @@ (".js" :> "javascript")
        @@ (".java" :> "java") @@ (".go" :> "go")

\* the Parser and the Query built by the n-th load of a language
LoadedObjects(n) == [parser |-> <<"Parser", n>>, query |-> <<"Query", n>>]

\* ParserLoader.get_parser: the value returned or the exception raised, and
\* the caches after the call
get_parser(loader, file_path) ==
    LET suffix == SuffixLower(file_path)
        lang_name == IF suffix \in DOMAIN SUPPORTED_LANGUAGES
                     THEN SUPPORTED_LANGUAGES[suffix] ELSE ""
        loaded == LoadedObjects(Cardinality(DOMAIN loader) + 1)
    IN  IF lang_name = ""
        THEN [loader |-> loader,
              reply |-> [op |-> "get_parser", file_path |-> file_path, raised |-> "ValueError"]]
        ELSE IF lang_name \in DOMAIN loader
        THEN [loader |-> loader,
              reply |-> [op |-> "get_parser", file_path |-> file_path, raised |-> "",
                         value |-> <<loader[lang_name].parser, loader[lang_name].query>>]]
        ELSE [loader |-> loader @@ (lang_name :> loaded),
              reply |-> [op |-> "get_parser", file_path |-> file_path, raised |-> "",
                         value |-> <<loaded.parser, loaded.query, lang_name>>]]

\* a call of get_parser on the loader
GetParser(file_path) ==
    /\ registry' = get_parser(registry, file_path).loader
    /\ reply' = get_parser(registry, file_path).reply
    /\ UNCHANGED <<symbols, symbol_trie, inserted>>
    /\ UNCHANGED pipelineVars
    /\ UNCHANGED patchVars

\* _get_language: the tree_sitter module of the language is not installed
GetParserImportError(file_path) ==
    /\ SuffixLower(file_path) \in DOMAIN SUPPORTED_LANGUAGES
    /\ SUPPORTED_LANGUAGES[SuffixLower(file_path)] \notin DOMAIN registry
    /\ reply' = [op |-> "get_parser", file_path |-> file_path, raised |-> "ImportError"]
    /\ UNCHANGED <<symbols, symbol_trie, inserted, registry>>
    /\ UNCHANGED pipelineVars
    /\ UNCHANGED patchVars

\* ---- the store functions: insert_symbol, search_symbols, get_symbol_info,
\* ---- get_symbol_context ----

MaxRows == 3

\* max_length of validate_input
MaxInputLength == 255

\* validate_input: TRUE when no ValueError is raised.  A text is a tuple
\* of characters; a file name or a line of code stands for its characters
\* as one element.
validate_input(value) ==
    /\ value # <<>>
    /\ Len(value) <= MaxInputLength
    /\ \A i \in 1..Len(value) : value[i] \notin {";", "'", "\""}

\* the text of a definition, line by line
DefinitionText(def) ==
    CASE def = 4 -> <<"def z():", "return a() + u()">>
      [] def = 5 -> <<"def a():", "b()">>
      [] def = 6 -> <<"def b():", "z()">>
      [] def = 7 -> <<"def b():", "pass">>

SymbolInfo(name, file_path, def, calls) ==
    [name |-> name, file_path |-> file_path, type |-> <<"function">>, signature |-> <<"(", ")">>,
     body |-> <<"pass">>, full_definition |-> def, calls |-> calls, calls_is_list |-> TRUE]

\* the symbol_info arguments: z calls a and the unstored u, a calls b, b
\* calls z; a and b exist in two files; four arguments are invalid
SymbolInfos ==
    LET z == SymbolInfo(<<"z">>, <<"src", "a.py">>, 4, <<(<<"a">>), (<<"u">>)>>)
        a == SymbolInfo(<<"a">>, <<"src", "a.py">>, 5, <<(<<"b">>)>>)
    IN  {z, a,
         SymbolInfo(<<"a">>, <<"lib", "b.py">>, 5, <<(<<"b">>)>>),
         SymbolInfo(<<"b">>, <<"src", "a.py">>, 6, <<(<<"z">>)>>),
         SymbolInfo(<<"b">>, <<"lib", "b.py">>, 7, <<>>),
         [a EXCEPT !.name = <<"a", ";">>],
         [a EXCEPT !.file_path = [i \in 1..(MaxInputLength + 1) |-> "x"]],
         [a EXCEPT !.body = <<>>],
         [z EXCEPT !.calls = <<(<<"a">>), (<<"u", "'">>)>>],
         [z EXCEPT !.calls_is_list = FALSE]}

\* insert_symbol: the checks made before the INSERT
InfoValid(info) ==
    /\ \A value \in {info.name, info.file_path, info.type, info.signature, info.body,
                     DefinitionText(info.full_definition)} : validate_input(value)
    /\ info.calls_is_list
    /\ \A i \in 1..Len(info.calls) : validate_input(info.calls[i])

\* UNIQUE(name, file_path)
Conflicts(table, info) ==
    \E r \in 1..Len(table) : table[r].name = info.name /\ table[r].file_path = info.file_path

\* insert_symbol: a ValueError is raised again after the rollback; an
\* IntegrityError is rolled back and not reported
InsertSymbol(info) ==
    /\ (InfoValid(info) /\ ~Conflicts(symbols, info)) => Len(symbols) < MaxRows
    /\ IF InfoValid(info) /\ ~Conflicts(symbols, info)
       THEN /\ symbols' = Append(symbols,
                             [name |-> info.name, file_path |-> info.file_path,
                              type |-> info.type, signature |-> info.signature,
                              body |-> info.body, full_definition |-> info.full_definition,
                              full_definition_hash |-> calculate_crc32_hash(info.full_definition),
                              calls |-> info.calls])
            /\ symbol_trie' = Insert(symbol_trie, info.name,
                                     TrieInfo(info.file_path, info.signature,
                                              calculate_crc32_hash(info.full_definition)))
       ELSE UNCHANGED <<symbols, symbol_trie>>
    /\ reply' = [op |-> "insert_symbol", symbol_info |-> info,
                 raised |-> IF InfoValid(info) THEN "" ELSE "ValueError"]
    /\ UNCHANGED <<inserted, registry>>
    /\ UNCHANGED pipelineVars
    /\ UNCHANGED patchVars

\* the ASCII case folding of LIKE
lower(char) == IF char = "A" THEN "a" ELSE IF char = "Z" THEN "z" ELSE char

\* text LIKE pattern: % stands for any run of characters, _ for any one
\* character, letters match without regard to case
RECURSIVE LikeMatch(_, _)
LikeMatch(pattern, text) ==
    IF pattern = <<>> THEN text = <<>>
    ELSE IF Head(pattern) = "%"
    THEN LikeMatch(Tail(pattern), text) \/ (text # <<>> /\ LikeMatch(pattern, Tail(text)))
    ELSE /\ text # <<>>
         /\ Head(pattern) = "_" \/ lower(Head(pattern)) = lower(Head(text))
         /\ LikeMatch(Tail(pattern), Tail(text))

\* file_path LIKE '%hint%'
Like(hint, file_path) == LikeMatch(<<"%">> \o hint \o <<"%">>, file_path)

\* search_symbols: LIMIT rows among those with name LIKE prefix || '%', in
\* an order the query does not fix
SearchSymbols(prefix, limit) ==
    LET matching == {r \in 1..Len(symbols) : LikeMatch(Append(prefix, "%"), symbols[r].name)}
        count == IF Cardinality(matching) < limit THEN Cardinality(matching) ELSE limit
    IN  /\ IF validate_input(prefix) /\ limit >= 1 /\ limit <= 100
           THEN \E rows \in SUBSET matching :
                   /\ Cardinality(rows) = count
                   /\ reply' = [op |-> "search_symbols", prefix |-> prefix, limit |-> limit,
                                raised |-> "",
                                results |-> {[name |-> symbols[r].name,
                                              file_path |-> symbols[r].file_path] : r \in rows}]
           ELSE reply' = [op |-> "search_symbols", prefix |-> prefix, limit |-> limit,
                          raised |-> "ValueError"]
        /\ UNCHANGED <<symbols, symbol_trie, inserted, registry>>
        /\ UNCHANGED pipelineVars
        /\ UNCHANGED patchVars

\* get_symbol_info_api: validate_input(symbol_name), then get_symbol_info;
\* an empty file_path stands for None
GetSymbolInfo(symbol_name, file_path) ==
    /\ reply' =
          IF validate_input(symbol_name)
          THEN [op |-> "get_symbol_info", symbol_name |-> symbol_name, file_path |-> file_path,
                raised |-> "",
                results |-> {symbols[r] : r \in {r \in 1..Len(symbols) :
                                /\ symbols[r].name = symbol_name
                                /\ file_path # <<>> => Like(file_path, symbols[r].file_path)}}]
          ELSE [op |-> "get_symbol_info", symbol_name |-> symbol_name, file_path |-> file_path,
                raised |-> "ValueError"]
    /\ UNCHANGED <<symbols, symbol_trie, inserted, registry>>
    /\ UNCHANGED pipelineVars
    /\ UNCHANGED patchVars

\* the recursive step of call_tree: the calls of the rows that have the name
\* and the file_path of a row of the level, paired with that file_path
Callees(table, level) ==
    UNION {{<<table[r].calls[i], table[r].file_path>> : i \in 1..Len(table[r].calls)} :
              r \in {r \in 1..Len(table) : <<table[r].name, table[r].file_path>> \in level}}

\* WITH RECURSIVE call_tree: the rows of the level and of the levels below,
\* as long as ct.depth < max_depth - 1
RECURSIVE call_tree(_, _, _)
call_tree(table, level, steps) ==
    IF steps <= 0 \/ level = {} THEN level
    ELSE level \cup call_tree(table, Callees(table, level), steps - 1)

\* the orders in which a SELECT without ORDER BY may return a set of rows
Orderings(rows) ==
    {s \in [1..Cardinality(rows) -> rows] : \A i, j \in DOMAIN s : i # j => s[i] # s[j]}

\* get_symbol_context
GetSymbolContext(symbol_name, file_path, max_depth) ==
    LET base == {<<symbols[r].name, symbols[r].file_path>> : r \in {r \in 1..Len(symbols) :
                    /\ symbols[r].name = symbol_name
                    /\ file_path # <<>> => Like(file_path, symbols[r].file_path)}}
        rows == call_tree(symbols, base, max_depth - 1)
        symbol_dict == {pair[1] : pair \in rows}
        selected == {[name |-> symbols[r].name, file_path |-> symbols[r].file_path,
                      full_definition |-> symbols[r].full_definition] :
                        r \in {r \in 1..Len(symbols) : symbols[r].name \in symbol_dict}}
        call == [op |-> "get_symbol_context", symbol_name |-> symbol_name,
                 file_path |-> file_path, max_depth |-> max_depth]
    IN  /\ IF ~validate_input(symbol_name) \/ max_depth < 0 \/ max_depth > 10
           THEN reply' = call @@ [raised |-> "ValueError"]
           ELSE IF rows = {}
           THEN reply' = call @@ [raised |-> "", error |-> TRUE]
           ELSE \E definitions \in Orderings(selected) :
                   reply' = call @@ [raised |-> "", error |-> FALSE, definitions |-> definitions]
        /\ UNCHANGED <<symbols, symbol_trie, inserted, registry>>
        /\ UNCHANGED pipelineVars
        /\ UNCHANGED patchVars

\* ---- process_matches: symbols and the calls inside their bodies ----

\* body ranges of the function matches of
\*    0: def f():            6:     d()
\*    1:     def g():        7:     e()
\*    2:         a()         8: def k():
\*    3:     def h():        9:     x()
\*    4:         b()        10: def m(): y()
\*    5:         c()
\* as (line, column) points: f holds g and h, k stands apart, m has its
\* body on the line of its def
BodyRanges ==
    {[name |-> "f", start |-> <<1, 4>>, end |-> <<7, 7>>, complete |-> TRUE],
     [name |-> "g", start |-> <<2, 8>>, end |-> <<2, 11>>, complete |-> TRUE],
     [name |-> "h", start |-> <<4, 8>>, end |-> <<5, 11>>, complete |-> TRUE],
     [name |-> "k", start |-> <<9, 4>>, end |-> <<9, 7>>, complete |-> TRUE],
     [name |-> "m", start |-> <<10, 9>>, end |-> <<10, 12>>, complete |-> TRUE]}

\* a call expression of three characters
CallNodes == {[start |-> <<line, col>>, end |-> <<line, col + 3>>] : line \in 1..10, col \in {4, 8, 9}}

\* the matches of a file in the order of the query result, at most one of
\* them without its function.body capture
MatchLists ==
    {s \in UNION {[1..n -> BodyRanges \cup {[b EXCEPT !.complete = FALSE] : b \in BodyRanges}] :
                     n \in 0..3} :
        /\ \A i, j \in DOMAIN s : i # j => s[i].name # s[j].name
        /\ \A i, j \in DOMAIN s : (~s[i].complete /\ ~s[j].complete) => i = j}

\* block_array.sort(key=start line): a stable sort
RECURSIVE SortByStartLine(_)
SortByStartLine(blocks) ==
    IF blocks = <<>> THEN <<>>
    ELSE LET rest == SortByStartLine(Tail(blocks))
             before == SelectSeq(rest, LAMBDA b : b.start[1] < Head(blocks).start[1])
             after == SelectSeq(rest, LAMBDA b : b.start[1] >= Head(blocks).start[1])
         IN  before \o <<Head(blocks)>> \o after

\* block_start <= called_start_line <= block_end
LinesCover(block, line) == block.start[1] <= line /\ line <= block.end[1]

\* the binary search over the sorted blocks: the index it stops at, 0 when
\* it runs out
RECURSIVE FindBlock(_, _, _, _)
FindBlock(blocks, line, left, right) ==
    IF left > right THEN 0
    ELSE LET mid == (left + right) \div 2
         IN  IF LinesCover(blocks[mid], line) THEN mid
             ELSE IF line < blocks[mid].start[1]
             THEN FindBlock(blocks, line, left, mid - 1)
             ELSE FindBlock(blocks, line, mid + 1, right)

\* possible_blocks: the block found and its neighbours to the left and to
\* the right as long as their lines cover the call
possible_blocks(blocks, line) ==
    LET mid == FindBlock(blocks, line, 1, Len(blocks))
    IN  IF mid = 0 THEN {}
        ELSE {blocks[i] : i \in {i \in 1..Len(blocks) :
                 \A j \in (IF i < mid THEN i ELSE mid)..(IF i < mid THEN mid ELSE i) :
                    LinesCover(blocks[j], line)}}

is_within_block(block, call) ==
    /\ call.start[1] >= block.start[1]
    /\ call.end[1] <= block.end[1]
    /\ call.start[1] = block.start[1] => call.start[2] >= block.start[2]
    /\ call.end[1] = block.end[1] => call.end[2] <= block.end[2]

\* process_matches: the symbols extracted and those that get the call, or
\* the KeyError of a match without its function.body capture
process_matches(matches, call) ==
    IF \E i \in 1..Len(matches) : ~matches[i].complete
    THEN [raised |-> "KeyError", symbols |-> {}, callers |-> {}]
    ELSE [raised |-> "",
          symbols |-> {matches[i].name : i \in 1..Len(matches)},
          callers |-> {b.name : b \in {b \in possible_blocks(SortByStartLine(matches), call.start[1]) :
                                          is_within_block(b, call)}}]

\* one call of process_matches on the matches of a file
ProcessMatches(matches, call) ==
    /\ reply = NoReply
    /\ reply' = [op |-> "process_matches", matches |-> matches, call |-> call]
                   @@ process_matches(matches, call)
    /\ UNCHANGED <<symbols, symbol_trie, inserted, registry>>
    /\ UNCHANGED pipelineVars
    /\ UNCHANGED patchVars


\* ---- parse_worker_wrapper, step by step ----

\* timeout of parse_thread.join(timeout), in ticks of the clock
timeout == 5

\* result = None
None == [file |-> <<"None">>, symbols |-> NoDefs]

\* result and parse_thread.start(), then the main thread sits in join(timeout)
WrapperStart(file_path) ==
    /\ reply = NoReply
    /\ reply' = [op |-> "parse_worker_wrapper", file_path |-> file_path,
                 main |-> "join_timeout", thread |-> "parse_task",
                 result |-> None, elapsed |-> 0, warned |-> FALSE, returned |-> None]
    /\ UNCHANGED <<symbols, symbol_trie, inserted, registry>>
    /\ UNCHANGED pipelineVars
    /\ UNCHANGED patchVars

\* parse_task: get_parser and parse_source_file return or raise
ParseTask ==
    /\ reply.op = "parse_worker_wrapper"
    /\ reply.thread = "parse_task"
    /\ reply' = [reply EXCEPT !.thread = IF fs[reply.file_path].source.ok
                                         THEN "parsed" ELSE "except"]
    /\ UNCHANGED <<symbols, symbol_trie, inserted, registry>>
    /\ UNCHANGED pipelineVars
    /\ UNCHANGED patchVars

\* with result_lock: result = (file_path, symbols), or (None, None) in the
\* except branch
StoreResult ==
    /\ reply.op = "parse_worker_wrapper"
    /\ reply.thread \in {"parsed", "except"}
    /\ reply' = [reply EXCEPT
                    !.result = IF reply.thread = "parsed"
                               THEN [file |-> reply.file_path,
                                     symbols |-> fs[reply.file_path].source.defs]
                               ELSE NoResult,
                    !.thread = "stored"]
    /\ UNCHANGED <<symbols, symbol_trie, inserted, registry>>
    /\ UNCHANGED pipelineVars
    /\ UNCHANGED patchVars

\* parse_task returns and the thread ends
ThreadEnds ==
    /\ reply.op = "parse_worker_wrapper"
    /\ reply.thread = "stored"
    /\ reply' = [reply EXCEPT !.thread = "terminated"]
    /\ UNCHANGED <<symbols, symbol_trie, inserted, registry>>
    /\ UNCHANGED pipelineVars
    /\ UNCHANGED patchVars

\* time passes while the main thread waits in join(timeout)
Tick ==
    /\ reply.op = "parse_worker_wrapper"
    /\ reply.main = "join_timeout"
    /\ reply.thread # "terminated"
    /\ reply.elapsed < timeout
    /\ reply' = [reply EXCEPT !.elapsed = @ + 1]
    /\ UNCHANGED <<symbols, symbol_trie, inserted, registry>>
    /\ UNCHANGED pipelineVars
    /\ UNCHANGED patchVars

\* join(timeout) returns: the thread has ended or the time is up
JoinTimeout ==
    /\ reply.op = "parse_worker_wrapper"
    /\ reply.main = "join_timeout"
    /\ reply.thread = "terminated" \/ reply.elapsed = timeout
    /\ reply' = [reply EXCEPT !.main = "is_alive"]
    /\ UNCHANGED <<symbols, symbol_trie, inserted, registry>>
    /\ UNCHANGED pipelineVars
    /\ UNCHANGED patchVars

\* if parse_thread.is_alive(): the warning, then on to join()
IsAlive ==
    /\ reply.op = "parse_worker_wrapper"
    /\ reply.main = "is_alive"
    /\ reply' = IF reply.thread # "terminated"
                THEN [reply EXCEPT !.warned = TRUE, !.main = "join"]
                ELSE [reply EXCEPT !.main = "lock"]
    /\ UNCHANGED <<symbols, symbol_trie, inserted, registry>>
    /\ UNCHANGED pipelineVars
    /\ UNCHANGED patchVars

\* (variant: the wrapper gives up after the warning)
JoinAbandons(thread) == TRUE

\* parse_thread.join() returns when the thread has ended
JoinReturns(thread) == thread = "terminated"

Join ==
    /\ reply.op = "parse_worker_wrapper"
    /\ reply.main = "join"
    /\ JoinReturns(reply.thread)
    /\ reply' = [reply EXCEPT !.main = "lock"]
    /\ UNCHANGED <<symbols, symbol_trie, inserted, registry>>
    /\ UNCHANGED pipelineVars
    /\ UNCHANGED patchVars

\* with result_lock: return result
WrapperReturn ==
    /\ reply.op = "parse_worker_wrapper"
    /\ reply.main = "lock"
    /\ reply' = [reply EXCEPT !.main = "returned", !.returned = reply.result]
    /\ UNCHANGED <<symbols, symbol_trie, inserted, registry>>
    /\ UNCHANGED pipelineVars
    /\ UNCHANGED patchVars
(***************************************************************************)
(* Specifications                                                          *)
(***************************************************************************)

IndexIdle ==
    /\ symbols = <<>>
    /\ file_metadata = <<>>
    /\ symbol_trie = EmptyTrie
    /\ pc = "idle"
    /\ all_existing_symbols = [n \in Names |-> <<>>]
    /\ tasks = <<>>
    /\ pending = {}
    /\ results = <<>>
    /\ tx = NoTx
    /\ log = [tasks |-> {}, parse_failed |-> {}, write_failed |-> {}, written |-> {},
              rows_written |-> 0, edits_at_start |-> 0]
    /\ prev = NoPrev
    /\ extracted = {}
    /\ scans = 0
    /\ edits = 0
    /\ faults = 0

ApiIdle ==
    /\ inserted = <<>>
    /\ registry = <<>>
    /\ reply = NoReply

PatchIdle ==
    /\ disk = [f \in PatchFiles |-> <<>>]
    /\ disk0 = disk
    /\ request = <<>>
    /\ outcome = NoOutcome

\* a patch request against files on disk
PatchInit ==
    /\ disk \in [PatchFiles -> Contents]
    /\ disk0 = disk
    /\ request \in RequestsFor(disk)
    /\ outcome = NoOutcome
    /\ fs = [f \in Files |-> [mtime |-> 1, source |-> [ok |-> TRUE, defs |-> NoDefs]]]
    /\ scan = [mode |-> "sync", roots |-> "absolute", batch_size |-> BatchSize]
    /\ IndexIdle
    /\ ApiIdle

PatchNext == GenerateDiff \/ ApplyPatch

PatchSpec == PatchInit /\ [][PatchNext]_vars

\* an empty store and a project directory
Init ==
    /\ PatchIdle
    /\ fs \in {x \in [Files -> [mtime : {1}, source : Sources]] :
                 \A f \in Files : x[f].source \in SourcesOf(f)}
    /\ scan \in [mode : {"sync", "pool"}, roots : {"absolute", "relative"}, batch_size : {BatchSize}]
    /\ IndexIdle
    /\ ApiIdle

Next ==
    \/ ScanStart
    \/ ScanPathMissing
    \/ PathErrorRaised
    \/ Dispatch
    \/ \E f \in Files : Parse(f)
    \/ SkipFailedResult
    \/ BeginWrite
    \/ WriteMetadata
    \/ Commit
    \/ WriteFails
    \/ ScanEnd
    \/ \E f \in Files : \E source \in SourcesOf(f) : EditFile(f, source)

Spec == Init /\ [][Next]_vars

\* the scan with a pool of workers, the task list being longer than a batch
\* or not
PoolInit ==
    /\ PatchIdle
    /\ fs \in {x \in [Files -> [mtime : {1}, source : Sources]] :
                 \A f \in Files : x[f].source \in SourcesOf(f)}
    /\ scan \in [mode : {"pool"}, roots : {"absolute"}, batch_size : 1..BatchSize]
    /\ IndexIdle
    /\ ApiIdle

PoolSpec == PoolInit /\ [][Next]_vars


\* ---- the prefix index on its own ----

TrieInit ==
    /\ PatchIdle
    /\ fs = [f \in Files |-> [mtime |-> 1, source |-> [ok |-> TRUE, defs |-> NoDefs]]]
    /\ scan = [mode |-> "sync", roots |-> "absolute", batch_size |-> BatchSize]
    /\ IndexIdle
    /\ ApiIdle

TrieNext ==
    \/ \E word \in InsertWords, info \in InsertInfos : TrieInsert(word, info)
    \/ \E prefix \in SearchPrefixes : SearchPrefix(prefix)

TrieSpec == TrieInit /\ [][TrieNext]_vars

\* ---- one ParserLoader ----

RegistryInit == TrieInit

RegistryNext ==
    \/ \E file_path \in ParserFiles : GetParser(file_path)
    \/ \E file_path \in ParserFiles : GetParserImportError(file_path)

RegistrySpec == RegistryInit /\ [][RegistryNext]_vars

\* ---- the store functions on an empty table ----

StoreInit == TrieInit

StoreNext ==
    \/ \E info \in SymbolInfos : InsertSymbol(info)
    \/ \E prefix \in {<<"a">>, <<"A">>, <<"_">>, <<"z">>, <<>>, <<"a", "'">>}, limit \in {0, 1, 100, 101} :
          SearchSymbols(prefix, limit)
    \/ \E symbol_name \in {<<"a">>, <<"z">>, <<"z", ";">>},
          file_path \in {<<>>, <<"a.py">>, <<"b.py">>, <<"a.py", "'">>} :
          \/ GetSymbolInfo(symbol_name, file_path)
          \/ \E max_depth \in {-1, 0, 1, 2, 3, 11} :
                GetSymbolContext(symbol_name, file_path, max_depth)

StoreSpec == StoreInit /\ [][StoreNext]_vars

\* ---- the extractor on its own ----

MatchNext == \E matches \in MatchLists, call \in CallNodes : ProcessMatches(matches, call)

MatchSpec == TrieInit /\ [][MatchNext]_vars

\* ---- one call of parse_worker_wrapper ----

WrapperInit ==
    /\ PatchIdle
    /\ fs \in {x \in [Files -> [mtime : {1}, source : Sources]] :
                 \A f \in Files : x[f].source \in SourcesOf(f)}
    /\ scan = [mode |-> "pool", roots |-> "absolute", batch_size |-> BatchSize]
    /\ IndexIdle
    /\ ApiIdle

WrapperNext ==
    \/ \E file_path \in Files : WrapperStart(file_path)
    \/ ParseTask
    \/ StoreResult
    \/ ThreadEnds
    \/ Tick
    \/ JoinTimeout
    \/ IsAlive
    \/ Join
    \/ WrapperReturn

WrapperSpec == WrapperInit /\ [][WrapperNext]_vars
(***************************************************************************)
(* Properties of the patch engine                                          *)
(***************************************************************************)

Finished == outcome.op # "none"
Failed == outcome.status \in {"overlap", "mismatch"}
Untouched == disk = disk0 /\ outcome.patched = <<>> /\ outcome.diff = <<>>

StaleRange(r) == Slice(disk0[r.file], r.start, r.end) # r.expected

\* i comes before j when one file's ranges are sorted by start offset
Before(i, j) ==
    \/ request[i].start < request[j].start
    \/ request[i].start = request[j].start /\ i < j

Overlapping(i, j) ==
    /\ i # j
    /\ request[i].file = request[j].file
    /\ Before(i, j)
    /\ request[j].start < request[i].end

\* C1: if some range's expected bytes differ from the bytes on disk at
\* (start, end), generate_diff and apply_patch both fail and no file of the
\* request is modified, files whose ranges are all valid included.
C1_MismatchRejectsWholeRequest ==
    (Finished /\ \E i \in 1..Len(request) : StaleRange(request[i]))
        => Failed /\ Untouched

\* apply_patch has refused a request with a stale range in one file and a
\* valid, changing range in the other
C1_Witness ==
    /\ outcome.op = "apply"
    /\ outcome.status = "mismatch"
    /\ \E i, j \in 1..Len(request) :
          /\ request[i].file # request[j].file
          /\ StaleRange(request[i])
          /\ ~StaleRange(request[j])
          /\ ~IsNoOp(request[j])

\* C2: a request is rejected as overlapping, by both operations and with the
\* disk untouched, exactly when two ranges of one file, taken in start order,
\* have the later start before the earlier end; touching ranges and ranges of
\* different files are not rejected by this check.
C2_OverlapRejectedExactly ==
    Finished =>
        /\ outcome.status = "overlap"
              <=> \E i, j \in 1..Len(request) : Overlapping(i, j)
        /\ outcome.status = "overlap" => Untouched

\* apply_patch has refused two overlapping ranges that both match the disk
C2_Witness ==
    /\ outcome.op = "apply"
    /\ outcome.status = "overlap"
    /\ \A i \in 1..Len(request) : ~StaleRange(request[i])
    /\ \E i \in 1..Len(request) : ~IsNoOp(request[i])

\* the length change of the ranges order[1..k]
RECURSIVE NetChange(_, _)
NetChange(order, k) ==
    IF k = 0 THEN 0
    ELSE NetChange(order, k - 1)
         + Len(request[order[k]].replacement)
         - (request[order[k]].end - request[order[k]].start)

\* how many of the sorted ranges end at or before 0-based offset p
EndedBefore(order, p) == Cardinality({k \in 1..Len(order) : request[order[k]].end <= p})

LayoutOf(f, new) ==
    LET old == disk0[f]
        order == SortedRanges(request, f)
    IN  /\ Len(new) = Len(old) + NetChange(order, Len(order))
        /\ \A k \in 1..Len(order) :
              LET at == request[order[k]].start + NetChange(order, k - 1)
              IN  SubSeq(new, at + 1, at + Len(request[order[k]].replacement))
                     = request[order[k]].replacement
        /\ \A p \in 0..(Len(old) - 1) :
              (\A k \in 1..Len(order) :
                   ~(request[order[k]].start <= p /\ p < request[order[k]].end))
              => new[p + 1 + NetChange(order, EndedBefore(order, p))] = old[p + 1]

\* C3: for a valid request the content apply_patch returns for a file is the
\* original with each range replaced by its replacement: the bytes outside
\* the ranges keep their order, and each replacement starts at its start
\* offset shifted by the net length change of the edits before it.
C3_ApplySplicesReplacements ==
    (outcome.op = "apply" /\ outcome.status = "ok") =>
        \A f \in PatchFiles :
            IF f \in DOMAIN outcome.patched
            THEN LayoutOf(f, outcome.patched[f]) /\ disk[f] = outcome.patched[f]
            ELSE disk[f] = disk0[f]

\* apply_patch has spliced an insertion and a later length-changing
\* replacement into one file
C3_Witness ==
    /\ outcome.op = "apply"
    /\ outcome.status = "ok"
    /\ \E i, j \in 1..Len(request) :
          /\ request[i].file = request[j].file
          /\ request[i].start = request[i].end
          /\ request[i].replacement # <<>>
          /\ request[i].end <= request[j].start
          /\ request[j].start < request[j].end
          /\ Len(request[j].replacement) # request[j].end - request[j].start
          /\ request[i].file \in DOMAIN outcome.patched

AllNoOp == \A i \in 1..Len(request) : IsNoOp(request[i])

WithoutNoOps == SelectSeq(request, LAMBDA r : ~IsNoOp(r))

\* C4 as stated: a request whose every range has replacement = expected
\* yields the empty string from generate_diff and the empty map from
\* apply_patch, and leaves every file unchanged.
C4_Original ==
    (Finished /\ AllNoOp) => ~Failed /\ Untouched

\* C4, amended: a request that passes validation and whose every range has
\* replacement = expected yields the empty diff and the empty result map; a
\* request of no-op ranges never changes a file, accepted or refused; and in
\* a mixed request the no-op ranges contribute no change to the diff.
C4_NoOpRequestYieldsNothing ==
    /\ (Finished /\ AllNoOp) => Untouched
    /\ (Finished /\ AllNoOp /\ Validate(request, disk0) = "ok") => ~Failed
    /\ (outcome.op = "diff" /\ outcome.status = "ok")
          => outcome.diff = DiffText(WithoutNoOps, disk0)

\* generate_diff has accepted a request mixing a no-op range and a changing
\* range of the same file
C4_Witness ==
    /\ outcome.op = "diff"
    /\ outcome.status = "ok"
    /\ outcome.diff # <<>>
    /\ \E i, j \in 1..Len(request) :
          /\ request[i].file = request[j].file
          /\ IsNoOp(request[i])
          /\ request[i].start < request[i].end
          /\ ~IsNoOp(request[j])
(***************************************************************************)
(* Properties of the scan pipeline                                         *)
(***************************************************************************)

ScanOver == pc \in {"done", "aborted"}

\* the step that commits the transaction of tx.file
CommitStep == pc = "tx_meta" /\ pc' # "tx_meta" /\ pc' # "aborted"

RowsOf(table, name, file_path) ==
    {k \in 1..Len(table) : table[k].name = name /\ table[k].file_path = file_path}

RowsWithHash(table, name, hash) ==
    {k \in 1..Len(table) : table[k].name = name /\ table[k].full_definition_hash = hash}

EntriesWithHash(trie, word, hash) ==
    {k \in 1..Len(EntriesAt(trie, word)) :
        EntriesAt(trie, word)[k].full_definition_hash = hash}

\* C5: a scan run right after a completed scan of the same roots, with no
\* file changed since that scan began, inserts or replaces no row of the
\* symbols table and ends with the prefix index as large as the first left it.
C5_RescanWritesNothing ==
    (pc = "done" /\ prev.status = "done" /\ prev.edits_at_start = edits)
        => log.rows_written = 0 /\ symbol_trie.size = prev.trie_size

\* C6: when a file is written back, every extracted symbol whose hash differs
\* from the hash of the stored row of the same (name, file_path) has that row
\* replaced by the new definition, and a row whose hash is unchanged is not
\* rewritten.
C6_ChangedRowsReplaced ==
    [][CommitStep =>
        \A n \in Names :
            LET def == tx.symbols[n] IN
            (def # 0) =>
                \A k \in RowsOf(symbols, n, tx.file) :
                    IF symbols[k].full_definition_hash # calculate_crc32_hash(def)
                    THEN \E j \in RowsOf(symbols', n, tx.file) :
                            symbols'[j].full_definition = def
                    ELSE \A j \in 1..Len(tx.rows) : tx.rows[j].name # n
      ]_vars

\* C7: when a symbol is written back whose (name, hash) an earlier write-back
\* has already handled, in this pass or an earlier one, in this file or
\* another, the symbols table holds exactly one row with that name and hash
\* and the prefix index exactly one entry with that hash under the name.
C7_OneRowOneEntry ==
    [][CommitStep =>
        \A n \in Names :
            LET def == tx.symbols[n] IN
            (def # 0 /\ <<n, calculate_crc32_hash(def)>> \in extracted) =>
                /\ Cardinality(RowsWithHash(symbols', n, calculate_crc32_hash(def))) = 1
                /\ Cardinality(EntriesWithHash(symbol_trie', n, calculate_crc32_hash(def))) = 1
      ]_vars

\* C8: the committed tables change only by the commit of one file's
\* transaction, which brings all the rows staged for the file and its
\* file_metadata row at once and leaves the rows of other files as they
\* were; a write that fails changes nothing committed.
C8_FileWriteIsOneTransaction ==
    [][/\ (symbols' # symbols \/ file_metadata' # file_metadata) =>
            /\ pc = "tx_meta"
            /\ tx.open
            /\ tx.meta # <<>>
            /\ \A k \in 1..Len(tx.rows) :
                   \E j \in 1..Len(symbols') : symbols'[j] = tx.rows[k]
            /\ tx.file \in DOMAIN file_metadata'
            /\ file_metadata'[tx.file].last_modified = tx.last_modified
            /\ file_metadata'[tx.file].total_symbols = TotalSymbols(tx.symbols)
            /\ \A k \in 1..Len(symbols) :
                   symbols[k].file_path # tx.file =>
                       \E j \in 1..Len(symbols') : symbols'[j] = symbols[k]
            /\ \A p \in DOMAIN file_metadata :
                   p # tx.file => p \in DOMAIN file_metadata' /\ file_metadata'[p] = file_metadata[p]
       /\ pc' = "aborted" => symbols' = symbols /\ file_metadata' = file_metadata
      ]_vars

\* a write failed after the scan had committed a file with two rows
C8_Witness ==
    /\ pc = "aborted"
    /\ log.write_failed # {}
    /\ log.written # {}
    /\ log.rows_written >= 2
    /\ Len(symbols) >= 2

\* C9: a store write that fails for one file does not stop the scan: when
\* the scan is over, every other file of its task list that parsed has been
\* written.
C9_WriteFailureIsolated ==
    ScanOver =>
        \A f \in log.tasks : f \in log.parse_failed \cup log.write_failed \cup log.written

\* C10: a file that fails to parse does not stop the scan, in either mode:
\* when a scan is over in which no store write failed, every file of the task
\* list that parsed has been written; the failing file is never written back.
C10_ParseFailureIsolated ==
    /\ (ScanOver /\ log.write_failed = {}) =>
            \A f \in log.tasks : f \in log.parse_failed \cup log.written
    /\ log.parse_failed \cap log.written = {}
    /\ tx.open => tx.file \notin log.parse_failed
    /\ \A k \in 1..Len(results) : results[k].file \notin log.parse_failed

\* a pool scan is over in which one file failed to parse and the file parsed
\* after it was written with its rows
C10_Witness ==
    /\ pc = "done"
    /\ scan.mode = "pool"
    /\ log.parse_failed # {}
    /\ log.written # {}
    /\ log.rows_written > 0

\* C11: a scan called with a project path that does not exist fails before
\* doing any work: no file is queued or parsed, the symbols and file_metadata
\* tables stay as they are, and the prefix index in use is neither replaced
\* nor modified, from the call to the moment the error reaches the caller.
C11_MissingPathFailsBeforeWork ==
    [][(pc' = "path_error" \/ pc = "path_error") =>
          /\ symbols' = symbols
          /\ file_metadata' = file_metadata
          /\ symbol_trie' = symbol_trie
          /\ all_existing_symbols' = all_existing_symbols
          /\ tasks' = <<>> /\ pending' = {} /\ results' = <<>>
          /\ log' = log
          /\ pc' \in {"path_error", "idle"}
      ]_vars

\* the call has failed on a store with rows, while the index in use holds
\* something a rebuild from the store would not give
C11_Witness ==
    /\ pc = "path_error"
    /\ symbols # <<>>
    /\ symbol_trie # from_symbols(symbols)

(***************************************************************************)
(* Properties of the prefix index, the parser registry and the store       *)
(* queries                                                                 *)
(***************************************************************************)

\* an entry of the key carries the file path and the definition hash of info
Carries(trie, key, info) ==
    \E k \in 1..Len(EntriesAt(trie, key)) :
        /\ EntriesAt(trie, key)[k].file_path = info.file_path
        /\ EntriesAt(trie, key)[k].full_definition_hash = info.full_definition_hash

HoldsHash(trie, key, info) ==
    \E k \in 1..Len(EntriesAt(trie, key)) :
        EntriesAt(trie, key)[k].full_definition_hash = info.full_definition_hash

IsBare(word) ==
    ~ /\ Len(word) >= 7
      /\ SubSeq(word, 1, 7) = <<"s", "y", "m", "b", "o", "l", ":">>

\* symbol:<basename of the file>/<name>
BasenameKey(word, file_path) ==
    <<"s", "y", "m", "b", "o", "l", ":", file_path[Len(file_path)], "/">> \o word

\* symbol:<directory>/__init__.py/<name> for a package file, the basename
\* key for every other file
IdentifiableKey(word, file_path) ==
    IF file_path[Len(file_path)] = "__init__.py"
    THEN <<"s", "y", "m", "b", "o", "l", ":", file_path[Len(file_path) - 1], "/",
           "__init__.py", "/">> \o word
    ELSE BasenameKey(word, file_path)

\* the k-th insertion is the first one of its key and definition hash
FirstOfItsHash(k) ==
    \A j \in 1..(k - 1) :
        ~ /\ inserted[j].word = inserted[k].word
          /\ inserted[j].info.full_definition_hash = inserted[k].info.full_definition_hash

\* the key held the hash before the k-th insertion through a direct insertion
\* of the qualified key
QualifiedHeldHash(key, k) ==
    \E j \in 1..(k - 1) :
        /\ inserted[j].word = key
        /\ inserted[j].info.full_definition_hash = inserted[k].info.full_definition_hash

LastInsert == inserted'[Len(inserted')]

\* C13: an insert(name, info) made when the node of name already holds an
\* entry with the same definition hash changes nothing: no entry under the
\* bare key, none under the file-qualified key, the same size; and
\* inserting the same name and info twice equals inserting it once.
C13_SameHashInsertIsNoOp ==
    /\ [][(inserted' # inserted /\ HoldsHash(symbol_trie, LastInsert.word, LastInsert.info))
             => symbol_trie' = symbol_trie]_vars
    /\ [](\A word \in InsertWords, info \in InsertInfos :
             Insert(Insert(symbol_trie, word, info), word, info)
                = Insert(symbol_trie, word, info))

\* the second insertion repeated the name and hash of the first for another
\* file, and the index holds nothing for that file
C13_Witness ==
    /\ Len(inserted) = 2
    /\ IsBare(inserted[1].word)
    /\ inserted[2].word = inserted[1].word
    /\ inserted[2].info.full_definition_hash = inserted[1].info.full_definition_hash
    /\ inserted[2].info.file_path # inserted[1].info.file_path
    /\ symbol_trie.size = 2
    /\ ~Carries(symbol_trie, inserted[2].word, inserted[2].info)
    /\ ~Carries(symbol_trie, IdentifiableKey(inserted[2].word, inserted[2].info.file_path),
                inserted[2].info)

\* C14: the prefix index is append-only for the lifetime of the process:
\* an entry that search_prefix returns for a key is returned for that key
\* by every later search_prefix, across insertions and repeated scans.
C14_IndexAppendOnly ==
    [][\A key \in DOMAIN symbol_trie.nodes :
          SeqToSet(search_prefix(symbol_trie, key))
             \subseteq SeqToSet(search_prefix(symbol_trie', key))]_vars

\* how often x occurs in the sequence s
Occurrences(s, x) == Cardinality({i \in 1..Len(s) : s[i] = x})

\* found holds one pair (key, entry) for every entry stored at every key
\* that starts with prefix, and nothing else
ExactlyTheEntriesBelow(found, trie, prefix) ==
    /\ \A i \in 1..Len(found) :
          /\ Len(found[i].name) >= Len(prefix)
          /\ SubSeq(found[i].name, 1, Len(prefix)) = prefix
          /\ Occurrences(EntriesAt(trie, found[i].name), found[i].details) > 0
    /\ \A key \in DOMAIN trie.nodes :
          (Len(key) >= Len(prefix) /\ SubSeq(key, 1, Len(prefix)) = prefix) =>
             \A k \in 1..Len(trie.nodes[key].symbols) :
                Occurrences(found, [name |-> key, details |-> trie.nodes[key].symbols[k]])
                   = Occurrences(trie.nodes[key].symbols, trie.nodes[key].symbols[k])

\* C15: search_prefix(p) returns exactly one (name, summary) pair for every
\* entry stored at every key that has p as a prefix, the name being the
\* complete key, and the empty list when no key starts with p.
C15_SearchReturnsEntriesBelowPrefix ==
    [][(reply' # reply /\ reply'.op = "search_prefix") =>
          ExactlyTheEntriesBelow(reply'.results, symbol_trie, reply'.prefix)]_vars

\* a search for f returned entries of f and of fg while the index also
\* holds file-qualified keys, which the result leaves out
C15_Witness ==
    /\ reply.op = "search_prefix"
    /\ reply.prefix = <<"f">>
    /\ \E i, j \in 1..Len(reply.results) :
          reply.results[i].name = <<"f">> /\ reply.results[j].name = <<"f", "g">>
    /\ Len(reply.results) = 3
    /\ Len(search_prefix(symbol_trie, <<"s">>)) = 3
    /\ search_prefix(symbol_trie, <<"x">>) = <<>>

\* the language of a file name, by its extension in lower case
LanguageOf(file_path) ==
    CASE file_path[2] \in {".c", ".h"} -> "c"
      [] file_path[2] \in {".py", ".PY"} -> "python"
      [] file_path[2] = ".js" -> "javascript"
      [] file_path[2] = ".java" -> "java"
      [] file_path[2] = ".go" -> "go"
      [] OTHER -> "none"

\* C16: every successful get_parser call returns the triple (parser, query,
\* language_id) of the language selected by the file's extension, the calls
\* served from the cache included: the same parser and query objects in the
\* same three-element shape as the first call.
C16_GetParserReturnsTriple ==
    (reply.op = "get_parser" /\ reply.raised = "") =>
        /\ Len(reply.value) = 3
        /\ reply.value[3] = LanguageOf(reply.file_path)
        /\ reply.value[1] = registry[LanguageOf(reply.file_path)].parser
        /\ reply.value[2] = registry[LanguageOf(reply.file_path)].query

\* the text is empty, longer than the ceiling, or holds a denied character
BadText(value) ==
    \/ value = <<>>
    \/ Len(value) > 255
    \/ \E i \in 1..Len(value) : value[i] = ";" \/ value[i] = "'" \/ value[i] = "\""

\* the free-form string inputs of the call a reply answers; a file_path
\* hint that is not given is no input
BadInput(answer) ==
    CASE answer.op = "insert_symbol" ->
            \/ \E field \in {"name", "file_path", "type", "signature", "body"} :
                  BadText(answer.symbol_info[field])
            \/ \E i \in 1..Len(answer.symbol_info.calls) : BadText(answer.symbol_info.calls[i])
      [] answer.op = "search_symbols" -> BadText(answer.prefix)
      [] answer.op \in {"get_symbol_info", "get_symbol_context"} ->
            \/ BadText(answer.symbol_name)
            \/ answer.file_path # <<>> /\ BadText(answer.file_path)
      [] OTHER -> FALSE

\* C17: every free-form string input of the store operations (the fields of
\* an inserted symbol, the search prefix, the symbol name and the file_path
\* hint of get and context) is validated against the length ceiling and the
\* deny-list before any query uses it: a violation raises a validation
\* error and leaves the symbols table and the prefix index unchanged.
C17_InvalidInputRejected ==
    [][BadInput(reply') =>
          /\ reply'.raised = "ValueError"
          /\ symbols' = symbols
          /\ symbol_trie' = symbol_trie]_vars

\* the names reached from a set of names by at most d call edges through
\* the stored rows
RECURSIVE ReachableNames(_, _)
ReachableNames(names, d) ==
    IF d = 0 THEN names
    ELSE ReachableNames(
            names \cup {callee \in {<<"a">>, <<"b">>, <<"u">>, <<"z">>} :
                          \E r \in 1..Len(symbols) :
                             /\ symbols[r].name \in names
                             /\ \E i \in 1..Len(symbols[r].calls) : symbols[r].calls[i] = callee},
            d - 1)

\* the names a call-context reply holds definitions of
DefinedNames(answer) ==
    IF answer.error THEN {}
    ELSE {answer.definitions[i].name : i \in 1..Len(answer.definitions)}

\* C18: for max_depth d in 0..10 the call-context query returns a
\* definition for a stored symbol exactly when its name is the root or is
\* reachable from the root by at most d call edges through stored symbols;
\* called names without a row contribute nothing; a max_depth outside
\* 0..10 is rejected.  (Stated for the calls without a file_path hint.)
C18_ContextIsDepthBoundedClosure ==
    (reply.op = "get_symbol_context" /\ ~BadText(reply.symbol_name) /\ reply.file_path = <<>>) =>
        IF reply.max_depth < 0 \/ reply.max_depth > 10
        THEN reply.raised = "ValueError"
        ELSE /\ reply.raised = ""
             /\ DefinedNames(reply) =
                   {name \in ReachableNames({reply.symbol_name}, reply.max_depth) :
                       \E r \in 1..Len(symbols) : symbols[r].name = name}

\* the place of a name in the alphabet
AlphabetRank(name) ==
    CASE name[1] = "a" -> 1 [] name[1] = "b" -> 2 [] name[1] = "u" -> 3 [] name[1] = "z" -> 4

ContextSucceeded(answer) ==
    answer.op = "get_symbol_context" /\ answer.raised = "" /\ ~answer.error

\* C19: in every successful call-context result the definition of the root
\* is the first element and the other definitions follow in alphabetical
\* order of their names, whatever the order of insertion of the rows.
C19_RootFirstThenAlphabetical ==
    ContextSucceeded(reply) =>
        /\ reply.definitions[1].name = reply.symbol_name
        /\ \A i, j \in 2..Len(reply.definitions) :
              i < j => AlphabetRank(reply.definitions[i].name)
                          <= AlphabetRank(reply.definitions[j].name)

\* C20: when several files define a name, a call-context result holds
\* exactly one definition of it: the one of the file matching the
\* file_path hint when there is such a row, otherwise the first one found.
C20_OneDefinitionPerName ==
    ContextSucceeded(reply) =>
        \A name \in DefinedNames(reply) :
            /\ Cardinality({i \in 1..Len(reply.definitions) :
                               reply.definitions[i].name = name}) = 1
            /\ \A i \in 1..Len(reply.definitions) :
                  (/\ reply.definitions[i].name = name
                   /\ reply.file_path # <<>>
                   /\ \E r \in 1..Len(symbols) :
                         /\ symbols[r].name = name
                         /\ symbols[r].file_path[Len(symbols[r].file_path)] = reply.file_path[1])
                  => reply.definitions[i].file_path[Len(reply.definitions[i].file_path)]
                        = reply.file_path[1]

\* C21: search(prefix, limit) with 1 <= limit <= 100 returns at most limit
\* entries {name, file_path}, each a stored row whose name starts with the
\* prefix exactly as typed, same characters and same case; a limit outside
\* 1..100 is rejected with a validation error.
C21_SearchReturnsRowsWithPrefix ==
    (reply.op = "search_symbols" /\ ~BadText(reply.prefix)) =>
        IF reply.limit < 1 \/ reply.limit > 100
        THEN reply.raised = "ValueError"
        ELSE /\ reply.raised = ""
             /\ Cardinality(reply.results) <= reply.limit
             /\ \A entry \in reply.results :
                   /\ \E r \in 1..Len(symbols) :
                         /\ symbols[r].name = entry.name
                         /\ symbols[r].file_path = entry.file_path
                   /\ Len(entry.name) >= Len(reply.prefix)
                   /\ SubSeq(entry.name, 1, Len(reply.prefix)) = reply.prefix

\* C22: a scan dispatches a file that passes the filters exactly when the
\* store has no file_metadata row for it or the recorded last_modified
\* differs from its current mtime, for absolute and for relative project
\* roots alike.
C22_GateSkipsUnchangedMtime ==
    [][(pc = "idle" /\ pc' = "dispatch") =>
          \A f \in Files :
             (\E k \in 1..Len(tasks') : tasks'[k] = f)
                <=> \/ f \notin DOMAIN file_metadata
                    \/ file_metadata[f].last_modified # fs[f].mtime]_vars

\* the files handed out so far in this scan
Dispatched == log.tasks \ {tasks[k] : k \in 1..Len(tasks)}

\* C23: in process-pool mode the store and the prefix index are changed by
\* the parent process only, one file transaction at a time: a step in
\* which a worker returns writes nothing, a transaction is opened only when
\* none is open, and the writes of a batch are complete before a file of
\* the next batch is dispatched.
C23_SingleWriterPath ==
    [][scan.mode = "pool" =>
          /\ pending' # pending /\ pending' \subseteq pending =>
                /\ symbols' = symbols /\ file_metadata' = file_metadata
                /\ symbol_trie' = symbol_trie /\ all_existing_symbols' = all_existing_symbols
                /\ tx' = tx
          /\ (tx' # tx /\ tx'.open /\ tx.open) => tx'.file = tx.file
          /\ (tx'.open /\ ~tx.open) => pending = {}
          /\ (pending = {} /\ pending' # {}) =>
                /\ results = <<>>
                /\ ~tx.open
                /\ Dispatched \subseteq log.written \cup log.parse_failed]_vars

\* the second batch is out while the file of the first batch has been
\* written
C23_Witness ==
    /\ scan.mode = "pool"
    /\ pending # {}
    /\ log.written # {}
    /\ Dispatched = Files
    /\ symbols # <<>>

\* the point p is not after the point q
NotAfter(p, q) == p[1] < q[1] \/ (p[1] = q[1] /\ p[2] <= q[2])

\* the body ranges of the matches of a reply that contain its call
Enclosing(answer) ==
    {answer.matches[i] : i \in {i \in 1..Len(answer.matches) :
        /\ NotAfter(answer.matches[i].start, answer.call.start)
        /\ NotAfter(answer.call.end, answer.matches[i].end)}}

\* C24: each call-expression capture is attributed to exactly one symbol,
\* the innermost one whose body range contains the call, and a call inside
\* some symbol's body range is never left unattributed, for nested body
\* ranges as well as for disjoint ones.
C24_CallGoesToInnermostSymbol ==
    (reply.op = "process_matches" /\ reply.raised = "") =>
        IF Enclosing(reply) = {} THEN reply.callers = {}
        ELSE \E inner \in Enclosing(reply) :
                /\ \A outer \in Enclosing(reply) : NotAfter(outer.start, inner.start)
                /\ reply.callers = {inner.name}

\* C25: the parse wrapper never abandons a parse: it reads and returns the
\* result only after the parse thread has ended, the timeout of the first
\* join leads to the warning and to the second join, nothing else, and the
\* value returned is the thread's outcome, (file, symbols) or (None, None),
\* with or without the warning
C25_WrapperAwaitsParse ==
    reply.op = "parse_worker_wrapper" =>
        /\ reply.main \in {"lock", "returned"} => reply.thread = "terminated"
        /\ reply.warned => reply.main \in {"join", "lock", "returned"}
        /\ reply.main = "returned" => reply.returned = parse_worker_wrapper(reply.file_path)

\* the wrapper has returned the symbols of a parse that outlasted the timeout
C25_Witness ==
    /\ reply.op = "parse_worker_wrapper"
    /\ reply.main = "returned"
    /\ reply.warned
    /\ reply.returned.file = reply.file_path

\* C26: when the capture set of one symbol lacks an expected sub-capture,
\* only that symbol is skipped: the extractor does not raise and returns
\* every other symbol of the file.
C26_MalformedMatchSkipsOneSymbol ==
    reply.op = "process_matches" =>
        /\ reply.raised = ""
        /\ reply.symbols = {reply.matches[i].name :
                               i \in {i \in 1..Len(reply.matches) : reply.matches[i].complete}}


\* C27: no scan deletes a row of the symbols table: a (name, file_path) key
\* in the table stays in it over every step, and the row of a symbol that the
\* parse of its file no longer finds stays as it is, old definition included.
C27_ScanDeletesNoRow ==
    [][\A k \in 1..Len(symbols) :
          /\ RowsOf(symbols', symbols[k].name, symbols[k].file_path) # {}
          /\ (tx.file = symbols[k].file_path /\ tx.symbols[symbols[k].name] = 0) =>
                \E j \in 1..Len(symbols') : symbols'[j] = symbols[k]
      ]_vars

\* a scan has written a file again that has lost a symbol since its row was
\* stored, and the row is there
C27_Witness ==
    /\ pc = "done"
    /\ \E k \in 1..Len(symbols) :
          /\ symbols[k].file_path \in log.written
          /\ symbols[k].file_path \in DOMAIN fs
          /\ fs[symbols[k].file_path].source.ok
          /\ fs[symbols[k].file_path].source.defs[symbols[k].name] = 0
          /\ file_metadata[symbols[k].file_path].file_hash = fs[symbols[k].file_path].source

\* the store and the index after the files have been written one after the
\* other in the given order
RECURSIVE WrittenInOrder(_, _)
WrittenInOrder(files, state) ==
    IF files = <<>> THEN state
    ELSE IF ~fs[Head(files)].source.ok THEN WrittenInOrder(Tail(files), state)
    ELSE LET rows == FilteredData(fs[Head(files)].source.defs, state.existing,
                                  Head(files), NameOrder)
         IN  WrittenInOrder(Tail(files),
                            [table |-> InsertOrReplaceAll(state.table, rows),
                             existing |-> RememberRows(state.existing, rows),
                             trie |-> InsertRows(state.trie, rows)])

\* what the synchronous scan of the directory leaves in an empty store
SynchronousResult ==
    WrittenInOrder(WalkOrder, [table |-> <<>>,
                               existing |-> get_existing_symbols(<<>>),
                               trie |-> from_symbols(<<>>)])

\* C28: for a fixed directory content and a fixed initial store (here the
\* empty one), the rows of the symbols table and the entries of the prefix
\* index after a scan are those of the synchronous scan, whatever the mode
\* and whatever the order in which the workers of a batch return.
C28_ResultIndependentOfCompletionOrder ==
    (pc = "done" /\ scans = 1 /\ edits = 0 /\ faults = 0) =>
        /\ SeqToSet(symbols) = SeqToSet(SynchronousResult.table)
        /\ SeqToSet(search_prefix(symbol_trie, <<>>))
              = SeqToSet(search_prefix(SynchronousResult.trie, <<>>))

\* the store answers for the content of the file: the file_metadata row counts
\* the symbols of the content, and every symbol of the content has a row of
\* its name (the duplicate checks of the write let a row of another file or
\* of an older body stand in for it)
StoreReflects(file) ==
    /\ file_metadata[file].total_symbols = TotalSymbols(fs[file].source.defs)
    /\ \A n \in Names :
          fs[file].source.defs[n] # 0 => \E k \in 1..Len(symbols) : symbols[k].name = n

\* C29: after a scan has completed, every file whose file_metadata row holds
\* its current mtime, the mtime the gate compares, has in the store the
\* symbols of its current content, also when the file was modified between
\* its parse and its write.
C29_MtimeGateHidesNoChange ==
    pc = "done" =>
        \A file \in DOMAIN file_metadata \cap Files :
            (file_metadata[file].last_modified = fs[file].mtime /\ fs[file].source.ok)
                => StoreReflects(file)

\* C30: between calls, every entry the prefix index returns under a bare
\* symbol name has a row in the symbols table with that name, the entry's
\* file path and the entry's definition hash, also after a scan that
\* replaced a row or rolled a write back.
C30_IndexEntriesHaveRows ==
    (pc = "idle" /\ ~tx.open) =>
        \A n \in Names :
            \A i \in 1..Len(search_prefix(symbol_trie, n)) :
                LET entry == search_prefix(symbol_trie, n)[i]
                IN  \E k \in 1..Len(symbols) :
                        /\ symbols[k].name = entry.name
                        /\ symbols[k].file_path = entry.details.file_path
                        /\ symbols[k].full_definition_hash = entry.details.full_definition_hash
====
